---------------------------- MODULE Spec2Model ----------------------------
(***************************************************************************)
(* Model of render.py: the roster pipeline run by the entry point          *)
(* (render_team called twice on the same in-memory document).              *)
(*                                                                         *)
(* Representation.  A Python dict is a TLA+ function whose DOMAIN is the   *)
(* set of keys present (a JSON object is a record; a key that is absent is *)
(* absent from the DOMAIN).  A list is a sequence.  A Python str that is   *)
(* only compared for equality is a TLA+ string; a str that is built or     *)
(* formatted (characteristic texts, formatted numbers) is a sequence of    *)
(* one-character strings, so "1,000" is <<"1", ",", "0", "0", "0">>.       *)
(* None is the string "None" (no name of the model is spelled that way).   *)
(* The insertion order of a dict's keys is not modelled: it is a function  *)
(* of the order of the input lists and the program never sorts by it.      *)
(* Cost values are integers.                                               *)
(* A raised exception ends the run: pc = "failed" and error records it.    *)
(***************************************************************************)
EXTENDS Integers, Sequences, FiniteSets, TLC

VARIABLES data, pc, run, rules, players, profiles, league, special_rules,
          options, out, error

vars == <<data, pc, run, rules, players, profiles, league, special_rules,
          options, out, error>>

None == "None"

(***************************************************************************)
(* Python helpers                                                          *)
(***************************************************************************)

\* d.get(k, default)
get(d, k, default) == IF k \in DOMAIN d THEN d[k] ELSE default

\* sum of a list of integers
RECURSIVE sum(_)
sum(xs) == IF xs = <<>> THEN 0 ELSE xs[1] + sum(Tail(xs))

Range(xs) == {xs[i] : i \in DOMAIN xs}

\* list(a) + list(b) for a list of lists
RECURSIVE concat(_)
concat(xss) == IF xss = <<>> THEN <<>> ELSE xss[1] \o concat(Tail(xss))

\* The strings used as sort keys, in ascending code-point order (upper case
\* before lower case), which is the order of Python's < on str.
KeyOrder == <<"Apothecary", "Block", "Coach", "Dodge", "Lineman", "Rerolls",
              "Team League", "Thrower", "p1", "p2", "p9">>

rank(s) == CHOOSE i \in 1..Len(KeyOrder) : KeyOrder[i] = s

\* a < b on two str
str_lt(a, b) == rank(a) < rank(b)

\* sorted(keys) raises TypeError when it has to compare None with a str:
\* '<' is not supported between NoneType and str.  A single key is never
\* compared.
sorted_raises(keys) == None \in keys /\ Cardinality(keys) > 1

\* sorted(keys) for keys it can compare
RECURSIVE sorted(_)
sorted(keys) ==
    IF keys = {} THEN <<>>
    ELSE IF keys = {None} THEN <<None>>
    ELSE LET m == CHOOSE k \in keys : \A o \in keys : o = k \/ str_lt(k, o)
         IN  <<m>> \o sorted(keys \ {m})

\* list.sort(key=lambda x: x[field]): stable insertion of each item after the
\* items whose key is not greater
RECURSIVE sort_by(_, _)
sort_by(xs, field) ==
    IF xs = <<>> THEN <<>>
    ELSE LET n    == Len(xs)
             rest == sort_by(SubSeq(xs, 1, n - 1), field)
             x    == xs[n]
             keep == SelectSeq(rest, LAMBDA y : ~str_lt(x[field], y[field]))
             move == SelectSeq(rest, LAMBDA y : str_lt(x[field], y[field]))
         IN  keep \o <<x>> \o move

(***************************************************************************)
(* Number formatting                                                       *)
(***************************************************************************)

DigitChars == <<"0", "1", "2", "3", "4", "5", "6", "7", "8", "9">>

RECURSIVE digits(_)
digits(n) == IF n < 10 THEN <<DigitChars[n + 1]>>
             ELSE digits(n \div 10) \o <<DigitChars[(n % 10) + 1]>>

\* str(n)
str(n) == IF n < 0 THEN <<"-">> \o digits(0 - n) ELSE digits(n)

\* the digit string grouped by three from the right
RECURSIVE group3(_)
group3(ds) == IF Len(ds) <= 3 THEN ds
              ELSE group3(SubSeq(ds, 1, Len(ds) - 3)) \o <<",">>
                   \o SubSeq(ds, Len(ds) - 2, Len(ds))

\* the format spec without the comma: f"{n}"
format_comma_plain(n) == str(n)

\* f"{n:,}"
format_comma(n) == IF n < 0 THEN <<"-">> \o group3(digits(0 - n))
                   ELSE group3(digits(n))


(***************************************************************************)
(* Extraction and classification                                           *)
(***************************************************************************)

\* d[k] = v on a copy of d
set_item(d, k, v) == [f \in DOMAIN d \cup {k} |-> IF f = k THEN v ELSE d[f]]

get_selections(d) ==
    LET forces == d.roster.forces
    IN  concat([i \in 1..Len(forces) |-> get(forces[i], "selections", <<>>)])

\* the loop of primary_category over the category list
RECURSIVE first_primary(_)
first_primary(cats) ==
    IF cats = <<>> THEN None
    ELSE IF get(cats[1], "primary", FALSE) THEN cats[1].name
    ELSE first_primary(Tail(cats))

\* primary_category without the test of the "primary" flag: the name of the
\* first category
primary_category_unflagged(selection) ==
    LET cats == get(selection, "categories", <<>>)
    IN  IF cats = <<>> THEN None ELSE cats[1].name

primary_category(selection) ==
    first_primary(get(selection, "categories", <<>>))

\* The transform of group_by is a callable or a field name.  The one
\* callable the program passes is primary_category, written here by name.
Callables == {"primary_category"}

transform_key(x, transform) ==
    IF transform \in Callables THEN primary_category(x)
    ELSE get(x, transform, None)

group_by(xs, transform) ==
    LET keys == {transform_key(xs[i], transform) : i \in DOMAIN xs}
    IN  [k \in keys |->
            SelectSeq(xs, LAMBDA x : transform_key(x, transform) = k)]

\* uniq_by raises (TypeError) exactly when sorted(groups.keys()) does
uniq_by_raises(xs, transform) ==
    sorted_raises(DOMAIN group_by(xs, transform))

\* uniq_by keeping vals[-1], the last item of every group
uniq_by_last(xs, transform) ==
    LET groups == group_by(xs, transform)
        ks     == sorted(DOMAIN groups)
    IN  [i \in 1..Len(ks) |-> groups[ks[i]][Len(groups[ks[i]])]]

uniq_by(xs, transform) ==
    LET groups == group_by(xs, transform)
        ks     == sorted(DOMAIN groups)
    IN  [i \in 1..Len(ks) |-> groups[ks[i]][1]]

dedupe_by_raises(xs, transform) ==
    sorted_raises(DOMAIN group_by(xs, transform))

\* dedupe_by keeping vals[-1], the last item of every group
dedupe_by_last(xs, transform) ==
    LET groups == group_by(xs, transform)
        ks     == sorted(DOMAIN groups)
    IN  [i \in 1..Len(ks) |->
            set_item(groups[ks[i]][Len(groups[ks[i]])], "count",
                     Len(groups[ks[i]]))]

\* dedupe_by skipping a representative that already carries a count
dedupe_by_skip_counted(xs, transform) ==
    LET groups == group_by(xs, transform)
        ks     == SelectSeq(sorted(DOMAIN groups),
                            LAMBDA k : "count" \notin DOMAIN groups[k][1])
    IN  [i \in 1..Len(ks) |->
            set_item(groups[ks[i]][1], "count", Len(groups[ks[i]]))]

dedupe_by(xs, transform) ==
    LET groups == group_by(xs, transform)
        ks     == sorted(DOMAIN groups)
    IN  [i \in 1..Len(ks) |->
            set_item(groups[ks[i]][1], "count", Len(groups[ks[i]]))]

\* entry['count'] = count writes into the dict object that is in xs: the
\* item at index i of xs after the call
dedupe_by_written(xs, transform, i) ==
    LET k     == transform_key(xs[i], transform)
        first == \A j \in 1..(i - 1) : transform_key(xs[j], transform) # k
    IN  IF first THEN set_item(xs[i], "count", Len(group_by(xs, transform)[k]))
        ELSE xs[i]

(***************************************************************************)
(* Characteristic and cost dictionaries                                    *)
(***************************************************************************)

\* "not text" for text = c.get('$text'): None or the empty string
no_text(c) == IF "$text" \in DOMAIN c THEN Len(c["$text"]) = 0 ELSE TRUE

RECURSIVE characteristics_dict(_)
characteristics_dict(characteristics) ==
    IF characteristics = <<>> THEN <<>>
    ELSE LET n    == Len(characteristics)
             c    == characteristics[n]
             text == IF no_text(c)
                     THEN (IF c.name \in {"SPP", "Cost"} THEN <<"0">> ELSE <<>>)
                     ELSE c["$text"]
         IN  set_item(characteristics_dict(SubSeq(characteristics, 1, n - 1)),
                      c.name, text)

RECURSIVE cost_dict(_)
cost_dict(costs) ==
    IF costs = <<>> THEN <<>>
    ELSE LET n == Len(costs)
         IN  set_item(cost_dict(SubSeq(costs, 1, n - 1)),
                      costs[n].name, costs[n].value)

\* merge_costs with the slip "merged[name] = value" for a name already merged
RECURSIVE merge_costs_overwrite(_)
merge_costs_overwrite(costs_list) ==
    IF costs_list = <<>> THEN <<>>
    ELSE LET n      == Len(costs_list)
             merged == merge_costs_overwrite(SubSeq(costs_list, 1, n - 1))
             costs  == costs_list[n]
         IN  [name \in DOMAIN merged \cup DOMAIN costs |->
                 IF name \in DOMAIN costs THEN costs[name] ELSE merged[name]]

RECURSIVE merge_costs(_)
merge_costs(costs_list) ==
    IF costs_list = <<>> THEN <<>>
    ELSE LET n      == Len(costs_list)
             merged == merge_costs(SubSeq(costs_list, 1, n - 1))
             costs  == costs_list[n]
         IN  [name \in DOMAIN merged \cup DOMAIN costs |->
                 IF name \in DOMAIN merged
                 THEN (IF name \in DOMAIN costs
                       THEN merged[name] + costs[name] ELSE merged[name])
                 ELSE costs[name]]

(***************************************************************************)
(* Profile and Player                                                      *)
(***************************************************************************)

\* data['id'], data['name'] raise KeyError when the key is absent
Profile_parse_raises(p) == "id" \notin DOMAIN p \/ "name" \notin DOMAIN p

Profile_parse(p) ==
    [id |-> p.id, name |-> p.name,
     characteristics |-> characteristics_dict(get(p, "characteristics", <<>>))]

\* all_costs with the loop also descending into the sub-selections of each
\* sub-selection
Player_all_costs_subtree(d) ==
    LET selections == get(d, "selections", <<>>)
        nested     == concat([i \in 1..Len(selections) |->
                                 get(selections[i], "selections", <<>>)])
        with_costs == SelectSeq(selections \o nested,
                                LAMBDA s : "costs" \in DOMAIN s)
    IN  <<cost_dict(get(d, "costs", <<>>))>>
        \o [i \in 1..Len(with_costs) |-> cost_dict(with_costs[i].costs)]

\* all_costs of Player.parse: the player's own cost dict, then the cost dict
\* of every direct sub-selection that has a 'costs' key
Player_all_costs(d) ==
    LET selections == get(d, "selections", <<>>)
        with_costs == SelectSeq(selections, LAMBDA s : "costs" \in DOMAIN s)
    IN  <<cost_dict(get(d, "costs", <<>>))>>
        \o [i \in 1..Len(with_costs) |-> cost_dict(with_costs[i].costs)]

\* all_rules of Player.parse before uniq_by
Player_all_rules(d) ==
    LET selections == get(d, "selections", <<>>)
    IN  get(d, "rules", <<>>)
        \o concat([i \in 1..Len(selections) |->
                      get(selections[i], "rules", <<>>)])

\* Player.parse with "primary_profile = profiles[0]" unguarded: IndexError
\* for a player without profiles
Player_parse_error_unguarded(d) ==
    LET ps == get(d, "profiles", <<>>)
    IN  IF \E i \in 1..Len(ps) : Profile_parse_raises(ps[i]) THEN "KeyError"
        ELSE IF ps = <<>> THEN "IndexError"
        ELSE IF uniq_by_raises(Player_all_rules(d), "name") THEN "TypeError"
        ELSE "none"

\* the exception Player.parse ends with, "none" when it returns
Player_parse_error(d) ==
    LET ps == get(d, "profiles", <<>>)
    IN  IF \E i \in 1..Len(ps) : Profile_parse_raises(ps[i]) THEN "KeyError"
        ELSE IF uniq_by_raises(Player_all_rules(d), "name") THEN "TypeError"
        ELSE "none"

\* characteristics = primary_profile.characteristics if primary_profile else {}
Player_base_characteristics(parsed_profiles) ==
    IF Len(parsed_profiles) > 0 THEN parsed_profiles[1].characteristics
    ELSE <<>>

\* the overlay of Cost, SPP and Player on the base characteristics
Player_characteristics(base, total_costs, name) ==
    LET c1 == IF "TV" \in DOMAIN total_costs
              THEN set_item(base, "Cost", format_comma(total_costs["TV"]))
              ELSE base
        c2 == IF "SPP" \in DOMAIN total_costs
              THEN set_item(c1, "SPP", str(total_costs["SPP"]))
              ELSE c1
    IN  set_item(c2, "Player", <<name>>)   \* a name is one atom of text

Player_parse(d, idx) ==
    LET ps          == get(d, "profiles", <<>>)
        parsed      == [i \in 1..Len(ps) |-> Profile_parse(ps[i])]
        categories  == get(d, "categories", <<>>)
        total_costs == merge_costs(Player_all_costs(d))
    IN  [name             |-> d.name,
         number           |-> idx + 1,
         profiles         |-> parsed,
         costs            |-> total_costs,
         primary_category |-> primary_category(d),
         category_names   |-> [i \in 1..Len(categories) |-> categories[i].name],
         custom_name      |-> get(d, "customName", None),
         selections       |-> get(d, "selections", <<>>),
         rules            |-> uniq_by(Player_all_rules(d), "name"),
         characteristics  |->
             Player_characteristics(Player_base_characteristics(parsed),
                                    total_costs, d.name)]


(***************************************************************************)
(* Team management options                                                 *)
(***************************************************************************)

\* TeamOption.quantity
TeamOption_quantity(selections) ==
    IF selections = <<>> THEN 1
    ELSE sum([i \in 1..Len(selections) |-> get(selections[i], "number", 1)])

\* TeamOption.parse, with the quantity property the template reads
TeamOption_parse(d) ==
    [name       |-> d.name,
     selections |-> get(d, "selections", <<>>),
     quantity   |-> TeamOption_quantity(get(d, "selections", <<>>))]

\* the rules of every sub-selection of a "Special Rules" selection
tmo_rules_of(o) ==
    concat([i \in 1..Len(o.selections) |-> get(o.selections[i], "rules", <<>>)])

\* the exception the body of the loop raises for option o, "none" otherwise
tmo_option_error(o) ==
    IF o.name = "Team League"
    THEN (IF "selections" \notin DOMAIN o THEN "KeyError"
          ELSE IF o.selections = <<>> THEN "IndexError"
          ELSE "none")
    ELSE IF o.name = "Special Rules"
    THEN (IF "selections" \notin DOMAIN o THEN "KeyError"
          ELSE IF \E r \in Range(tmo_rules_of(o)) : "name" \notin DOMAIN r
               THEN "KeyError"
          ELSE "none")
    ELSE "none"

\* the exception of the first option whose iteration raises
RECURSIVE tmo_error(_)
tmo_error(opts) ==
    IF opts = <<>> THEN "none"
    ELSE IF tmo_option_error(opts[1]) # "none" THEN tmo_option_error(opts[1])
    ELSE tmo_error(Tail(opts))

\* league assigned only while it is still None: the first "Team League" wins
tmo_league_first(opts) ==
    LET tls == SelectSeq(opts, LAMBDA o : o.name = "Team League")
    IN  IF tls = <<>> THEN None ELSE tls[1].selections[1].name

\* league after the loop: every "Team League" option in turn reassigns it
tmo_league(opts) ==
    LET tls == SelectSeq(opts, LAMBDA o : o.name = "Team League")
    IN  IF tls = <<>> THEN None ELSE tls[Len(tls)].selections[1].name

\* special_rules after the loop: the sorted rules of the last "Special
\* Rules" option (with none, special_rules stays None: see
\* tmo_has_special_rules)
tmo_special_rules(opts) ==
    LET srs == SelectSeq(opts, LAMBDA o : o.name = "Special Rules")
    IN  IF srs = <<>> THEN <<>>
        ELSE sort_by(tmo_rules_of(srs[Len(srs)]), "name")

\* whether special_rules is a list (TRUE) or still None (FALSE)
tmo_has_special_rules(opts) ==
    \E i \in 1..Len(opts) : opts[i].name = "Special Rules"

tmo_other_options(opts) ==
    LET others == SelectSeq(opts,
                     LAMBDA o : o.name \notin {"Team League", "Special Rules"})
    IN  sort_by([i \in 1..Len(others) |-> TeamOption_parse(others[i])], "name")

(***************************************************************************)
(* The pipeline: render_team, called twice by the entry point              *)
(***************************************************************************)

NoError == [type |-> "none", in |-> "none"]

Fail(type, where) ==
    /\ pc' = "failed"
    /\ error' = [type |-> type, in |-> where]

\* rules = get_rules(data)
GetRules ==
    /\ pc = "get_rules"
    /\ LET sels == get_selections(data)
           rs   == concat([i \in 1..Len(sels) |-> get(sels[i], "rules", <<>>)])
       IN  IF uniq_by_raises(rs, "name")
           THEN Fail("TypeError", "get_rules") /\ UNCHANGED rules
           ELSE /\ rules' = uniq_by(rs, "name")
                /\ pc' = "get_players"
                /\ UNCHANGED error
    /\ UNCHANGED <<data, run, players, profiles, league, special_rules,
                   options, out>>

get_players_data(d) ==
    get(group_by(get_selections(d), "primary_category"), "Player", <<>>)

\* players = get_players(data)
GetPlayers ==
    /\ pc = "get_players"
    /\ LET pd  == get_players_data(data)
           bad == {i \in 1..Len(pd) : Player_parse_error(pd[i]) # "none"}
       IN  IF bad # {}
           THEN /\ Fail(Player_parse_error(
                          pd[CHOOSE i \in bad : \A j \in bad : i <= j]),
                        "get_players")
                /\ UNCHANGED players
           ELSE /\ players' = [i \in 1..Len(pd) |-> Player_parse(pd[i], i - 1)]
                /\ pc' = "get_profiles"
                /\ UNCHANGED error
    /\ UNCHANGED <<data, run, rules, profiles, league, special_rules,
                   options, out>>

\* all_profiles of get_profiles
get_all_profiles(d) ==
    LET sels == get_selections(d)
    IN  concat([i \in 1..Len(sels) |-> get(sels[i], "profiles", <<>>)])

\* The document after dedupe_by has written the counts into the profile
\* dicts, which are the dicts of the document: profile j of flattened
\* selection i is item number (profiles before it) + j of all_profiles.
RECURSIVE profiles_before(_, _)
profiles_before(sels, i) ==
    IF i <= 1 THEN 0
    ELSE profiles_before(sels, i - 1) + Len(get(sels[i - 1], "profiles", <<>>))

selection_written(d, sel, base) ==
    IF "profiles" \notin DOMAIN sel THEN sel
    ELSE set_item(sel, "profiles",
            [j \in 1..Len(sel.profiles) |->
                dedupe_by_written(get_all_profiles(d), "id", base + j)])

RECURSIVE selections_before(_, _)
selections_before(forces, f) ==
    IF f <= 1 THEN 0
    ELSE selections_before(forces, f - 1)
         + Len(get(forces[f - 1], "selections", <<>>))

data_written(d) ==
    LET forces == d.roster.forces
        sels   == get_selections(d)
        force_written(f) ==
            IF "selections" \notin DOMAIN forces[f] THEN forces[f]
            ELSE set_item(forces[f], "selections",
                    [s \in 1..Len(forces[f].selections) |->
                        selection_written(d, forces[f].selections[s],
                            profiles_before(sels,
                                selections_before(forces, f) + s))])
    IN  [roster |-> set_item(d.roster, "forces",
                       [f \in 1..Len(forces) |-> force_written(f)])]

\* profiles = get_profiles(data)
GetProfiles ==
    /\ pc = "get_profiles"
    /\ LET all_profiles == get_all_profiles(data)
       IN  IF dedupe_by_raises(all_profiles, "id")
           THEN Fail("TypeError", "get_profiles") /\ UNCHANGED <<profiles, data>>
           ELSE LET deduped == dedupe_by(all_profiles, "id")
                IN  /\ data' = data_written(data)
                    /\ IF \E i \in 1..Len(deduped) : Profile_parse_raises(deduped[i])
                       THEN Fail("KeyError", "get_profiles") /\ UNCHANGED profiles
                       ELSE /\ profiles' =
                                 sort_by([i \in 1..Len(deduped) |->
                                             Profile_parse(deduped[i])], "name")
                            /\ pc' = "team_management_options"
                            /\ UNCHANGED error
    /\ UNCHANGED <<run, rules, players, league, special_rules, options, out>>

tmo_options(d) ==
    get(group_by(get_selections(d), "primary_category"), "Team Management", <<>>)

\* league, special_rules, options = team_management_options(data)
TeamManagementOptions ==
    /\ pc = "team_management_options"
    /\ LET opts == tmo_options(data)
       IN  IF tmo_error(opts) # "none"
           THEN /\ Fail(tmo_error(opts), "team_management_options")
                /\ UNCHANGED <<league, special_rules, options>>
           ELSE /\ league' = tmo_league(opts)
                /\ special_rules' = [present |-> tmo_has_special_rules(opts),
                                     rules   |-> tmo_special_rules(opts)]
                /\ options' = tmo_other_options(opts)
                /\ pc' = "render"
                /\ UNCHANGED error
    /\ UNCHANGED <<data, run, rules, players, profiles, out>>

\* the context render_team hands to render()
render_context(d) ==
    [name          |-> d.roster.name,
     team_type     |-> d.roster.forces[1].catalogueName,
     tv            |-> format_comma(d.roster.costs[1].value),
     league        |-> league,
     special_rules |-> special_rules,
     rules         |-> rules,
     players       |-> players,
     profiles      |-> profiles,
     team_management_options |-> options]

NoSpecialRules == [present |-> FALSE, rules |-> <<>>]

\* return render(...): the rendered text is kept and the locals of the call
\* are gone; the entry point then calls render_team a second time on the
\* same document
Render ==
    /\ pc = "render"
    /\ out' = Append(out, render_context(data))
    /\ rules' = <<>>
    /\ players' = <<>>
    /\ profiles' = <<>>
    /\ league' = None
    /\ special_rules' = NoSpecialRules
    /\ options' = <<>>
    /\ IF run = 1
       THEN run' = 2 /\ pc' = "get_rules"
       ELSE pc' = "done" /\ UNCHANGED run
    /\ UNCHANGED <<data, error>>

Next == GetRules \/ GetPlayers \/ GetProfiles \/ TeamManagementOptions \/ Render


(***************************************************************************)
(* Input documents                                                         *)
(***************************************************************************)

MaxCosts == 2   \* entries in the player's own cost list
MaxSubs  == 2   \* direct sub-selections of the player
MaxRules == 2   \* rules in the player's own rule list
MaxSels  == 2   \* selections of the first force

SeqsUpTo(S, n) == UNION {[1..k -> S] : k \in 0..n}

Cost(name, value) == [name |-> name, value |-> value]

Rule(name, description) == [name |-> name, description |-> description]

Characteristic(name, text) == [name |-> name] @@ ("$text" :> text)

PlayerCategory == [name |-> "Player", primary |-> TRUE]

Document(forces) ==
    [roster |-> [name   |-> "Gouged Eye",
                 costs  |-> <<Cost("TV", 1000000)>>,
                 forces |-> forces]]

Force(selections) ==
    [catalogueName |-> "Orc", categories |-> <<PlayerCategory>>,
     selections |-> selections]

\* --- players that differ in costs, sub-selections and profiles ---

CostPool == {Cost("TV", 90), Cost("TV", 999), Cost("TV", 1234567),
             Cost("SPP", 3)}

SubPool ==
    { [name |-> "Block", rules |-> <<Rule("Block", "b1")>>],
      [name |-> "Mighty Blow", costs |-> <<Cost("TV", 1)>>,
       selections |-> <<[name |-> "Upgrade", costs |-> <<Cost("TV", 5)>>]>>],
      [name |-> "Star", costs |-> <<Cost("SPP", 2), Cost("TV", 0),
                                   Cost("SPP", 1)>>] }

ProfilePool ==
    { <<>>,
      <<[id |-> "p1", name |-> "Lineman",
         characteristics |-> <<Characteristic("MA", <<"6">>)>>]>>,
      <<[id |-> "p2", name |-> "Thrower",
         characteristics |-> <<Characteristic("Player", <<"x">>),
                               [name |-> "Cost"], [name |-> "SPP"],
                               Characteristic("MA", <<"5">>),
                               [name |-> "ST"],
                               Characteristic("MA", <<"7">>)>>],
        [id |-> "p1", name |-> "Lineman",
         characteristics |-> <<Characteristic("AG", <<"3", "+">>)>>]>> }

InitCosts ==
    \E costs \in SeqsUpTo(CostPool, MaxCosts),
       subs \in SeqsUpTo(SubPool, MaxSubs),
       ps \in ProfilePool :
        data = Document(<<Force(<<
                   [name |-> "Grak", categories |-> <<PlayerCategory>>,
                    profiles |-> ps, costs |-> costs, selections |-> subs]>>)>>)

\* --- selections that differ in their rule lists ---

RulePool == {Rule("Dodge", "d1"), Rule("Block", "b1"), Rule("Block", "b2"),
             [description |-> "unnamed"]}

InitRules ==
    \E own \in SeqsUpTo(RulePool, MaxRules),
       sub \in SeqsUpTo(RulePool, 1),
       other \in SeqsUpTo(RulePool, 1) :
        data = Document(<<Force(<<
                   [name |-> "Grak", categories |-> <<PlayerCategory>>,
                    rules |-> own,
                    selections |-> <<[name |-> "Skill", rules |-> sub]>>],
                   [name |-> "Wrapper", rules |-> other]>>)>>)

\* --- rosters that differ in their selections ---

TeamManagement == [name |-> "Team Management", primary |-> TRUE]

SelPool ==
    { [name |-> "Grak", categories |-> <<PlayerCategory>>,
       profiles |-> <<[id |-> "p1", name |-> "Lineman",
                       characteristics |-> <<Characteristic("MA", <<"6">>)>>]>>,
       costs |-> <<Cost("TV", 90)>>],
      [name |-> "Zug",
       categories |-> <<[name |-> "Big Guy", primary |-> FALSE], PlayerCategory>>,
       customName |-> "Zug the Mighty",
       profiles |-> <<[id |-> "p9", name |-> "Thrower"],
                      [id |-> "p1", name |-> "Thrower"]>>],
      [name |-> "Coach", categories |-> <<TeamManagement, PlayerCategory>>],
      [name |-> "Team League", categories |-> <<TeamManagement>>,
       selections |-> <<[name |-> "Underworld Challenge"]>>],
      [name |-> "Team League", categories |-> <<TeamManagement>>,
       selections |-> <<[name |-> "Open League"], [name |-> "Sevens"]>>],
      [name |-> "Team League", categories |-> <<TeamManagement>>,
       selections |-> <<>>],
      [name |-> "Special Rules", categories |-> <<TeamManagement>>,
       selections |-> <<[name |-> "Brawlers",
                         rules |-> <<Rule("Dodge", "d1"), Rule("Block", "b1")>>]>>],
      [name |-> "Rerolls", categories |-> <<TeamManagement>>,
       selections |-> <<[name |-> "Reroll", number |-> 2], [name |-> "Bonus"]>>],
      [name |-> "Apothecary", categories |-> <<TeamManagement>>],
      [name |-> "Wrapper",
       profiles |-> <<[id |-> "p9", name |-> "Lineman",
                       characteristics |-> <<Characteristic("MA", <<"4">>)>>],
                      [id |-> "p2", name |-> "Lineman"]>>],
      [name |-> "Broken", profiles |-> <<[name |-> "Thrower"]>>] }

SecondForcePool ==
    { <<>>,
      <<[name |-> "Team League", categories |-> <<TeamManagement>>,
         selections |-> <<[name |-> "Sevens"]>>]>>,
      <<[name |-> "Snik", categories |-> <<PlayerCategory>>,
         profiles |-> <<[id |-> "p9", name |-> "Apothecary"]>>]>> }

InitRoster ==
    \E first \in SeqsUpTo(SelPool, MaxSels), second \in SecondForcePool :
        data = Document(<<Force(first),
                          [catalogueName |-> "Orc", selections |-> second]>>)

Init ==
    /\ InitCosts \/ InitRules \/ InitRoster
    /\ pc = "get_rules"
    /\ run = 1
    /\ rules = <<>>
    /\ players = <<>>
    /\ profiles = <<>>
    /\ league = None
    /\ special_rules = NoSpecialRules
    /\ options = <<>>
    /\ out = <<>>
    /\ error = NoError

Spec == Init /\ [][Next]_vars


(***************************************************************************)
(* Vocabulary of the properties.  These are written from the document, not *)
(* from the operators above.                                               *)
(***************************************************************************)

\* the top-level selections of the document, force after force
Flattened ==
    LET forces == data.roster.forces
        RECURSIVE upto(_)
        upto(f) == IF f = 0 THEN <<>>
                   ELSE upto(f - 1)
                        \o (IF "selections" \in DOMAIN forces[f]
                            THEN forces[f].selections ELSE <<>>)
    IN  upto(Len(forces))

Field(d, k) == IF k \in DOMAIN d THEN d[k] ELSE <<>>

IsPrimary(c) == "primary" \in DOMAIN c /\ c.primary

\* the first category marked primary is named n
FirstPrimaryIs(sel, n) ==
    LET cats == Field(sel, "categories")
    IN  \E i \in DOMAIN cats :
            /\ IsPrimary(cats[i]) /\ cats[i].name = n
            /\ \A j \in 1..(i - 1) : ~IsPrimary(cats[j])

\* some category marked primary is named n
SomePrimaryIs(sel, n) ==
    LET cats == Field(sel, "categories")
    IN  \E i \in DOMAIN cats : IsPrimary(cats[i]) /\ cats[i].name = n

\* the player selections, in order of appearance
PlayerSelections == SelectSeq(Flattened, LAMBDA s : FirstPrimaryIs(s, "Player"))

\* get_players has returned in the current call of render_team
PlayersReady ==
    \/ pc \in {"get_profiles", "team_management_options", "render"}
    \/ pc = "failed" /\ error.in \in {"get_profiles", "team_management_options"}

\* get_rules has returned in the current call of render_team
RulesReady ==
    \/ pc \in {"get_players", "get_profiles", "team_management_options", "render"}
    \/ pc = "failed" /\ error.in # "get_rules"

ProfilesReady == pc \in {"team_management_options", "render"}
                 \/ (pc = "failed" /\ error.in = "team_management_options")

CostNames == {"TV", "SPP"}

RECURSIVE Total(_)
Total(ns) == IF ns = <<>> THEN 0 ELSE ns[1] + Total(Tail(ns))

\* the values of the entries named n of a cost list
ValuesOf(costs, n) ==
    LET es == SelectSeq(costs, LAMBDA c : c.name = n)
    IN  [i \in 1..Len(es) |-> es[i].value]

\* the value of the last entry named n of a cost list, 0 without one
LastOf(costs, n) ==
    LET vs == ValuesOf(costs, n)
    IN  IF vs = <<>> THEN 0 ELSE vs[Len(vs)]

\* the cost lists of a player selection and of its direct sub-selections
DirectCostLists(d) ==
    LET subs == Field(d, "selections")
    IN  <<Field(d, "costs")>> \o [i \in 1..Len(subs) |-> Field(subs[i], "costs")]

\* the cost lists of every selection of the subtree of d, to depth 3
SubtreeCostLists(d) ==
    LET subs == Field(d, "selections")
        below(s) == LET ss == Field(s, "selections")
                    IN  [j \in 1..Len(ss) |-> Field(ss[j], "costs")]
        RECURSIVE deep(_)
        deep(i) == IF i = 0 THEN <<>> ELSE deep(i - 1) \o below(subs[i])
    IN  DirectCostLists(d) \o deep(Len(subs))

NoRepeatedName(costs) ==
    \A i, j \in DOMAIN costs : costs[i].name = costs[j].name => i = j

(***************************************************************************)
(* C1: cost additivity over the player and its direct sub-selections       *)
(***************************************************************************)

\* C1 as stated: after Player.parse, every cost name of the merged costs has
\* the sum of that name's values over all the cost entries of the player and
\* of its direct sub-selections, and a name with no entry is absent.
C1_AsStated ==
    PlayersReady =>
        \A k \in DOMAIN players : \A n \in CostNames :
            LET lists == DirectCostLists(PlayerSelections[k])
                vals  == [i \in DOMAIN lists |-> Total(ValuesOf(lists[i], n))]
                has   == \E i \in DOMAIN lists : ValuesOf(lists[i], n) # <<>>
            IN  /\ n \in DOMAIN players[k].costs <=> has
                /\ has => players[k].costs[n] = Total(vals)

\* C1 amended: after Player.parse, every cost name of the merged costs has the
\* sum, over the player and its direct sub-selections, of the value of the
\* LAST entry with that name in each selection's cost list (cost_dict keeps the
\* last entry of a repeated name); a name with no entry is absent.
C1_CostAdditivity ==
    PlayersReady =>
        \A k \in DOMAIN players :
            /\ DOMAIN players[k].costs \subseteq CostNames
            /\ \A n \in CostNames :
                LET lists == DirectCostLists(PlayerSelections[k])
                    vals  == [i \in DOMAIN lists |-> LastOf(lists[i], n)]
                    has   == \E i \in DOMAIN lists : ValuesOf(lists[i], n) # <<>>
                IN  /\ n \in DOMAIN players[k].costs <=> has
                    /\ has => players[k].costs[n] = Total(vals)

\* a player whose TV is the sum 999 + 1 of its own entry and a sub-selection's,
\* and whose SPP comes from a repeated entry
C1_Witness ==
    /\ PlayersReady
    /\ \E k \in DOMAIN players :
        /\ DOMAIN players[k].costs = {"TV", "SPP"}
        /\ players[k].costs["TV"] = 1000
        /\ Len(Field(PlayerSelections[k], "selections")) = 2

(***************************************************************************)
(* C8: TV over the subtree                                                 *)
(***************************************************************************)

\* C8 as stated, for players none of whose cost lists repeats a name: the
\* player's total TV is the sum of all the TV entries of its subtree, the
\* sub-selections nested more than one level deep included.
C8_AsStated ==
    PlayersReady =>
        \A k \in DOMAIN players :
            LET lists == SubtreeCostLists(PlayerSelections[k])
            IN  (/\ \A i \in DOMAIN lists : NoRepeatedName(lists[i])
                 /\ "TV" \in DOMAIN players[k].costs)
                => players[k].costs["TV"]
                     = Total([i \in DOMAIN lists |-> Total(ValuesOf(lists[i], "TV"))])

\* C8 amended: the player's total TV is the sum of the TV of the player's own
\* cost list and of the cost lists of its DIRECT sub-selections (the last TV
\* entry of each list); the entries of selections nested deeper add nothing.
C8_DirectTV ==
    PlayersReady =>
        \A k \in DOMAIN players :
            LET d    == PlayerSelections[k]
                subs == Field(d, "selections")
                own  == LastOf(Field(d, "costs"), "TV")
                sub  == [i \in 1..Len(subs) |-> LastOf(Field(subs[i], "costs"), "TV")]
            IN  "TV" \in DOMAIN players[k].costs
                => players[k].costs["TV"] = own + Total(sub)

\* a player with a sub-selection that itself has a sub-selection with a TV cost
C8_Witness ==
    /\ PlayersReady
    /\ \E k \in DOMAIN players :
        LET subs == Field(PlayerSelections[k], "selections")
        IN  /\ "TV" \in DOMAIN players[k].costs
            /\ \E i \in DOMAIN subs :
                 \E j \in DOMAIN Field(subs[i], "selections") :
                    ValuesOf(Field(subs[i].selections[j], "costs"), "TV") # <<>>


(***************************************************************************)
(* C5: the final characteristics of a player                               *)
(***************************************************************************)

\* the names of the characteristics of a profile of the document
CharNames(p) ==
    {Field(p, "characteristics")[i].name : i \in DOMAIN Field(p, "characteristics")}

\* the text of characteristic n of a profile: that of its last entry named n,
\* and without a text "0" for SPP and Cost and the empty text otherwise
CharText(p, n) ==
    LET es   == SelectSeq(p.characteristics, LAMBDA c : c.name = n)
        last == es[Len(es)]
    IN  IF "$text" \in DOMAIN last /\ last["$text"] # <<>> THEN last["$text"]
        ELSE IF n \in {"SPP", "Cost"} THEN <<"0">> ELSE <<>>

Digit(ch) == CHOOSE d \in 0..9 : <<"0", "1", "2", "3", "4", "5", "6", "7", "8", "9">>[d + 1] = ch

IsDigit(ch) == ch \in {"0", "1", "2", "3", "4", "5", "6", "7", "8", "9"}

RECURSIVE Value(_)
Value(ds) == IF ds = <<>> THEN 0
             ELSE 10 * Value(SubSeq(ds, 1, Len(ds) - 1)) + Digit(ds[Len(ds)])

\* s is the plain decimal string of the natural number n
IsDecimal(s, n) ==
    /\ s # <<>>
    /\ \A i \in DOMAIN s : IsDigit(s[i])
    /\ Len(s) > 1 => s[1] # "0"
    /\ Value(s) = n

\* s is n in decimal with a comma before every group of three digits counted
\* from the right
IsGrouped(s, n) ==
    /\ IsDecimal(SelectSeq(s, LAMBDA ch : ch # ","), n)
    /\ \A i \in DOMAIN s : (s[i] = ",") <=> ((Len(s) - i + 1) % 4 = 0)

\* C5: the final characteristics of a player are the first profile's
\* characteristics with "Player" set to the selection's name, "Cost" set to
\* the merged TV with thousands separators exactly when the merged costs have
\* TV, "SPP" set to the decimal string of the merged SPP exactly when they
\* have SPP, and every other characteristic as in the profile; 0, 999, 1000
\* and 1234567 format as "0", "999", "1,000" and "1,234,567"; the player
\* "Grak" with MA "6" and TV 90 gets {MA: "6", Player: "Grak", Cost: "90"}
\* and costs {TV: 90}.
C5_Characteristics ==
    PlayersReady =>
        \A k \in DOMAIN players :
            LET d     == PlayerSelections[k]
                ps    == Field(d, "profiles")
                base  == IF ps = <<>> THEN {} ELSE CharNames(ps[1])
                costs == players[k].costs
                chars == players[k].characteristics
                over  == {"Player"}
                         \cup (IF "TV" \in DOMAIN costs THEN {"Cost"} ELSE {})
                         \cup (IF "SPP" \in DOMAIN costs THEN {"SPP"} ELSE {})
            IN  /\ DOMAIN chars = base \cup over
                /\ chars["Player"] = <<d.name>>
                /\ "TV" \in DOMAIN costs => IsGrouped(chars["Cost"], costs["TV"])
                /\ "SPP" \in DOMAIN costs => IsDecimal(chars["SPP"], costs["SPP"])
                /\ \A n \in base \ over : chars[n] = CharText(ps[1], n)
                /\ ("TV" \in DOMAIN costs /\ costs["TV"] = 0)
                       => chars["Cost"] = <<"0">>
                /\ ("TV" \in DOMAIN costs /\ costs["TV"] = 999)
                       => chars["Cost"] = <<"9", "9", "9">>
                /\ ("TV" \in DOMAIN costs /\ costs["TV"] = 1000)
                       => chars["Cost"] = <<"1", ",", "0", "0", "0">>
                /\ ("TV" \in DOMAIN costs /\ costs["TV"] = 1234567)
                       => chars["Cost"] = <<"1", ",", "2", "3", "4", ",", "5", "6", "7">>
                /\ (/\ d.name = "Grak"
                    /\ Field(d, "costs") = <<Cost("TV", 90)>>
                    /\ Field(d, "selections") = <<>>
                    /\ Len(ps) = 1
                    /\ ps[1].characteristics = <<Characteristic("MA", <<"6">>)>>)
                   => /\ chars = [MA |-> <<"6">>, Player |-> <<"Grak">>,
                                  Cost |-> <<"9", "0">>]
                      /\ costs = [TV |-> 90]
                      /\ players[k].name = "Grak"

\* a player whose profile has characteristics named Player, Cost and SPP,
\* whose merged TV is 1,234,567 + 1 and whose merged costs have no SPP
C5_Witness ==
    /\ PlayersReady
    /\ \E k \in DOMAIN players :
        /\ Field(PlayerSelections[k], "profiles") # <<>>
        /\ {"Player", "Cost", "SPP", "MA"}
               \subseteq CharNames(PlayerSelections[k].profiles[1])
        /\ players[k].characteristics["Cost"]
               = <<"1", ",", "2", "3", "4", ",", "5", "6", "8">>
        /\ players[k].characteristics["SPP"] = <<"0">>
        /\ players[k].characteristics["MA"] = <<"7">>

(***************************************************************************)
(* C10: a player without profiles                                          *)
(***************************************************************************)

\* the rule lists Player.parse reads: the player's own, then each direct
\* sub-selection's
PlayerRuleInput(d) ==
    LET subs == Field(d, "selections")
        RECURSIVE upto(_)
        upto(i) == IF i = 0 THEN <<>> ELSE upto(i - 1) \o Field(subs[i], "rules")
    IN  Field(d, "rules") \o upto(Len(subs))

\* some items have the key and some do not
MixedKeys(xs, key) ==
    /\ \E i \in DOMAIN xs : key \in DOMAIN xs[i]
    /\ \E i \in DOMAIN xs : key \notin DOMAIN xs[i]

\* C10: Player.parse of a player selection with zero profiles completes (it
\* raises only for what its rule list or a profile lacks), and the resulting
\* characteristics hold no entry other than the overlaid Player, Cost and SPP.
C10_NoProfiles ==
    /\ PlayersReady =>
         \A k \in DOMAIN players :
            Field(PlayerSelections[k], "profiles") = <<>>
            => /\ players[k].profiles = <<>>
               /\ DOMAIN players[k].characteristics \subseteq {"Player", "Cost", "SPP"}
               /\ "Player" \in DOMAIN players[k].characteristics
    /\ (pc = "failed" /\ error.in = "get_players")
         => \E k \in DOMAIN PlayerSelections :
               \/ MixedKeys(PlayerRuleInput(PlayerSelections[k]), "name")
               \/ \E i \in DOMAIN Field(PlayerSelections[k], "profiles") :
                     "id" \notin DOMAIN PlayerSelections[k].profiles[i]

\* a parsed player without profiles whose characteristics are Player and Cost
C10_Witness ==
    /\ PlayersReady
    /\ \E k \in DOMAIN players :
        /\ Field(PlayerSelections[k], "profiles") = <<>>
        /\ DOMAIN players[k].characteristics = {"Player", "Cost"}


(***************************************************************************)
(* C3, C9: uniq_by and dedupe_by                                           *)
(***************************************************************************)

\* the rules get_rules reads: those of every top-level selection, in order
TopRules ==
    LET RECURSIVE upto(_)
        upto(i) == IF i = 0 THEN <<>>
                   ELSE upto(i - 1) \o Field(Flattened[i], "rules")
    IN  upto(Len(Flattened))

\* the profiles get_profiles reads: those of every top-level selection
TopProfiles ==
    LET RECURSIVE upto(_)
        upto(i) == IF i = 0 THEN <<>>
                   ELSE upto(i - 1) \o Field(Flattened[i], "profiles")
    IN  upto(Len(Flattened))

KeyOf(x, key) == IF key \in DOMAIN x THEN x[key] ELSE None

\* outs has exactly one entry per distinct name of ins, each the first item
\* of ins with its name, in ascending order of name
FirstPerNameSorted(outs, ins) ==
    /\ \A i \in DOMAIN ins :
          Cardinality({j \in DOMAIN outs :
                          KeyOf(outs[j], "name") = KeyOf(ins[i], "name")}) = 1
    /\ \A j \in DOMAIN outs :
          \E i \in DOMAIN ins :
             /\ outs[j] = ins[i]
             /\ \A h \in 1..(i - 1) :
                   KeyOf(ins[h], "name") # KeyOf(ins[i], "name")
    /\ \A i, j \in DOMAIN outs :
          (i < j /\ "name" \in DOMAIN outs[i] /\ "name" \in DOMAIN outs[j])
          => str_lt(outs[i].name, outs[j].name)

\* C3: the rules of get_rules, and the rules of every player (its own rules
\* followed by each sub-selection's), hold exactly one entry per distinct
\* name, the first-occurring rule with that name, sorted ascending by name;
\* and uniq_by returns for every list all of whose rules have a name.
C3_RuleDedup ==
    /\ RulesReady => FirstPerNameSorted(rules, TopRules)
    /\ PlayersReady =>
          \A k \in DOMAIN players :
             FirstPerNameSorted(players[k].rules,
                                PlayerRuleInput(PlayerSelections[k]))
    /\ (pc = "failed" /\ error.in = "get_rules") => MixedKeys(TopRules, "name")

\* the roster rules Dodge/d1, Block/b1, Block/b2 reduced to Block/b1, Dodge/d1
C3_Witness ==
    /\ pc = "get_players"
    /\ \E i, j \in DOMAIN TopRules :
          i < j /\ TopRules[i] = Rule("Block", "b1") /\ TopRules[j] = Rule("Block", "b2")
    /\ TopRules[1] = Rule("Dodge", "d1")
    /\ rules = <<Rule("Block", "b1"), Rule("Dodge", "d1")>>

\* C9 as stated: when some rules lack a name and others have one, uniq_by
\* completes and the representative without a name comes first (and likewise
\* dedupe_by for profiles with and without an id).
C9_AsStated ==
    /\ MixedKeys(TopRules, "name")
         => /\ ~(pc = "failed" /\ error.in = "get_rules")
            /\ RulesReady => "name" \notin DOMAIN rules[1]
    /\ MixedKeys(TopProfiles, "id")
         => ~(pc = "failed" /\ error.in = "get_profiles" /\ error.type = "TypeError")

(***************************************************************************)
(* C2: the player list                                                     *)
(***************************************************************************)

\* players is sels parsed in order and numbered 1..N
NumberedInOrder(sels) ==
    /\ Len(players) = Len(sels)
    /\ \A k \in DOMAIN players :
          /\ players[k].name = sels[k].name
          /\ players[k].custom_name = KeyOf(sels[k], "customName")
          /\ players[k].number = k

\* C2 as stated: every selection with a category marked primary and named
\* "Player" is in the player list exactly once, in order of appearance,
\* numbered 1..N.
C2_AsStated ==
    PlayersReady =>
        NumberedInOrder(SelectSeq(Flattened, LAMBDA s : SomePrimaryIs(s, "Player")))

\* C2 amended: every selection whose FIRST category marked primary is named
\* "Player" is in the list returned by get_players exactly once, in order of
\* appearance in the flattened selections, numbered 1..N in that order.
C2_PlayerList ==
    PlayersReady => NumberedInOrder(PlayerSelections)

\* two players from two forces, with a selection that is no player between
C2_Witness ==
    /\ PlayersReady
    /\ Len(data.roster.forces[1].selections) = 2
    /\ data.roster.forces[1].selections[1].name = "Zug"
    /\ ~FirstPrimaryIs(data.roster.forces[1].selections[2], "Player")
    /\ Len(players) = 2
    /\ players[1].number = 1 /\ players[1].name = "Zug"
    /\ players[2].number = 2 /\ players[2].name = "Snik"

(***************************************************************************)
(* C6: the roster-wide profile list                                        *)
(***************************************************************************)

TeamLeagues ==
    SelectSeq(Flattened,
              LAMBDA s : FirstPrimaryIs(s, "Team Management") /\ s.name = "Team League")

\* C7: the league returned by team_management_options is the name of the
\* first sub-selection of the last "Team League" selection of the Team
\* Management bucket, and None without one; a single "Team League" with the
\* sub-selection "Underworld Challenge" gives "Underworld Challenge".
C7_League ==
    pc = "render" =>
        /\ IF TeamLeagues = <<>> THEN league = None
           ELSE league = TeamLeagues[Len(TeamLeagues)].selections[1].name
        /\ (/\ Len(TeamLeagues) = 1
            /\ TeamLeagues[1].selections = <<[name |-> "Underworld Challenge"]>>)
           => league = "Underworld Challenge"

\* two "Team League" selections: the later one's first sub-selection wins
C7_Witness ==
    /\ pc = "render"
    /\ Len(TeamLeagues) = 2
    /\ TeamLeagues[1].selections[1].name = "Underworld Challenge"
    /\ league = "Open League"

(***************************************************************************)
(* C4: idempotence                                                         *)
(***************************************************************************)

\* C4: the second call of render_team, made on the document the first call
\* has left in memory, completes and renders the context of the first call:
\* the same players and numbers, rules, profiles, options and formatted
\* numbers.
C4_Idempotent ==
    /\ pc = "done" => Len(out) = 2 /\ out[1] = out[2]
    /\ run = 2 => pc # "failed"

\* both calls are over, the first has written a count into a profile of the
\* document, and the rendered lists are not empty
C4_Witness ==
    /\ pc = "done"
    /\ \E i \in DOMAIN TopProfiles : "count" \in DOMAIN TopProfiles[i]
    /\ Len(out[2].profiles) = 2
    /\ Len(out[2].players) = 2
    /\ out[2].league = "Sevens"

=============================================================================
